---------------------------- MODULE Spec2Model ----------------------------
(***************************************************************************)
(* Model of RedditDataScraper.py: the rate-limited crawler that discovers  *)
(* subreddits, walks their listings and comment trees, and accumulates a   *)
(* flat table of posts and comments.                                       *)
(*                                                                         *)
(* Text is a sequence of one-character strings.  Python's None for an      *)
(* optional value is the empty tuple None, a present value v is Some(v).   *)
(* The Reddit API (asyncpraw) is the environment: every awaited API call   *)
(* either succeeds or raises one of the exceptions the code distinguishes. *)
(***************************************************************************)
EXTENDS Naturals, Integers, Sequences, FiniteSets, TLC

VARIABLES
    pc,         \* program location of the single coroutine that runs
    env,        \* environment: faults left to inject, rate-limit burst flag
    fw,         \* frame of fetch_with_retry
    hr,         \* frame of handle_rate_limit
    gen,        \* the generator object handed to handle_rate_limit
    delivered,  \* items handle_rate_limit has yielded in its current invocation
    ps,         \* frame of process_submission / process_comments
    tr,         \* frame of fetch_subreddit_content
    mn,         \* frame of main
    data,       \* the data container of fetch_subreddit_content (ten columns)
    src,        \* for every row begun in data: the item it was begun for
    csv,        \* the file written by df.to_csv: None, or Some(table)
    txt         \* a text, and clean_text applied to it once and twice

vars == <<pc, env, fw, hr, gen, delivered, ps, tr, mn, data, src, csv, txt>>

-----------------------------------------------------------------------------
(* Bounds of the model *)

\* fault bursts the environment may inject in one run of main
MaxFaults == 1
\* fault bursts the environment may inject while one wrapper is exercised alone
MaxWrapperFaults == 3
\* largest max_tries / max_retries a wrapper is exercised with
MaxTriesBound == 4
\* longest listing a wrapper is exercised with
MaxListing == 3
\* items the platform returns per listing request
PageSize == 1

-----------------------------------------------------------------------------
(* Optional values *)

None == << >>
Some(v) == <<v>>
IsNone(o) == o = << >>
Get(o) == o[1]

Min(a, b) == IF a <= b THEN a ELSE b

-----------------------------------------------------------------------------
(* Text Normalizer: clean_text and is_english *)

NL == "\n"
\* characters str.strip() trims and \S excludes
Whitespace == {" ", NL}
\* "#" stands for a letter of a script other than the Latin one
ForeignLetters == {"#"}
NonLetters == Whitespace \cup {".", ":", "/", "1"}
IsLetter(c) == c \notin NonLetters
IsEnglishLetter(c) == IsLetter(c) /\ c \notin ForeignLetters

\* s[i..] starts with the characters of p
StartsAt(s, i, p) ==
    /\ i + Len(p) - 1 <= Len(s)
    /\ \A k \in 1..Len(p) : s[i + k - 1] = p[k]

\* number of consecutive non-whitespace characters of s from position i on (\S+)
RECURSIVE NonSpaceRun(_, _)
NonSpaceRun(s, i) ==
    IF i > Len(s) \/ s[i] \in Whitespace THEN 0
    ELSE 1 + NonSpaceRun(s, i + 1)

\* length of the match of http\S+|www\S+ that starts at position i, 0 if none
UrlMatchAt(s, i) ==
    IF StartsAt(s, i, <<"h", "t", "t", "p">>) /\ NonSpaceRun(s, i + 4) > 0
    THEN 4 + NonSpaceRun(s, i + 4)
    ELSE IF StartsAt(s, i, <<"w", "w", "w">>) /\ NonSpaceRun(s, i + 3) > 0
    THEN 3 + NonSpaceRun(s, i + 3)
    ELSE 0

\* re.sub(r'http\S+|www\S+', '', s): leftmost non-overlapping matches removed
RECURSIVE RemoveUrls(_, _)
RemoveUrls(s, i) ==
    IF i > Len(s) THEN << >>
    ELSE IF UrlMatchAt(s, i) > 0 THEN RemoveUrls(s, i + UrlMatchAt(s, i))
    ELSE <<s[i]>> \o RemoveUrls(s, i + 1)

RECURSIVE LStrip(_)
LStrip(s) ==
    IF s # << >> /\ Head(s) \in Whitespace THEN LStrip(Tail(s)) ELSE s

RECURSIVE RStrip(_)
RStrip(s) ==
    IF s # << >> /\ s[Len(s)] \in Whitespace
    THEN RStrip(SubSeq(s, 1, Len(s) - 1)) ELSE s

\* str.strip()
Strip(s) == LStrip(RStrip(s))

\* the two steps in the other order
clean_text_strip_first(text) == RemoveUrls(Strip(text), 1)

clean_text(text) == Strip(RemoveUrls(text, 1))

IdleTxt == [input |-> << >>, once |-> << >>, twice |-> << >>]

CountLetters(s) == Cardinality({i \in 1..Len(s) : IsLetter(s[i])})
CountEnglish(s) == Cardinality({i \in 1..Len(s) : IsEnglishLetter(s[i])})

\* langdetect.detect: "err" is LangDetectException (no letter to go by);
\* otherwise the language most letters of the text belong to
detect(text) ==
    IF CountLetters(text) = 0 THEN "err"
    ELSE IF 2 * CountEnglish(text) > CountLetters(text) THEN "en"
    ELSE "other"

\* the length below which is_english does not consult the detector
MinDetectLen == 10

is_english_nolen(text) == detect(text) = "en"

is_english(text) ==
    IF Len(Strip(text)) < MinDetectLen THEN FALSE
    ELSE detect(text) = "en"


-----------------------------------------------------------------------------
(* Exceptions and the environment's fault injection *)

\* an exception value: its class and, for TooManyRequests, the Retry-After
\* header of its response (None when the header is absent)
Exc(kind, hint) == [kind |-> kind, hint |-> hint]
NoExc == Exc("none", None)
\* values the server sends in Retry-After
RetryAfterValues == {7}
RateLimitExcs == {Exc("TooManyRequests", h) : h \in {None} \cup {Some(v) : v \in RetryAfterValues}}
OtherExcs == {Exc(k, None) : k \in {"Forbidden", "NotFound", "Exception"}}

\* The environment injects faults in bursts: a TooManyRequests response that
\* directly follows another one with the same Retry-After belongs to the same
\* burst.  env.left is the number of bursts and single faults still allowed.
InBurst(e) == e.kind = "TooManyRequests" /\ env.limited /\ env.hint = e.hint

CanRaise(e) == InBurst(e) \/ env.left > 0

EnvAfter(e) ==
    IF e.kind = "none" THEN [env EXCEPT !.limited = FALSE, !.hint = None]
    ELSE IF InBurst(e) THEN env
    ELSE IF e.kind = "TooManyRequests"
    THEN [env EXCEPT !.limited = TRUE, !.hint = e.hint, !.left = env.left - 1]
    ELSE [env EXCEPT !.limited = FALSE, !.hint = None, !.left = env.left - 1]

NewEnv(budget, loadValue) ==
    [left |-> budget, limited |-> FALSE, hint |-> None, loadValue |-> loadValue]

-----------------------------------------------------------------------------
(* fetch_with_retry *)

DefaultMaxTries == 3
FallbackWait == 30
ErrorWait == 5

\* frame of a call fetch_with_retry(coro_func, item_desc, max_tries); what names
\* the wrapped call, ret the location the caller continues at, raised the
\* exceptions caught so far, log the outcome
\* of every invocation of coro_func so far
NewFW(what, max, ret) ==
    [what |-> what, max |-> max, ret |-> ret, tries |-> 0, last |-> NoExc,
     sleeps |-> << >>, log |-> << >>, raised |-> << >>, done |-> FALSE, result |-> None]

IdleFW == [NewFW("none", 0, "none") EXCEPT !.done = TRUE]

\* the value a successful call returns: submission.load() populates the
\* submission and returns it or returns nothing, depending on the library;
\* replace_more returns the list of skipped placeholders
OkValues(what) ==
    IF what = "load" THEN (IF env.loadValue THEN {Some("submission")} ELSE {None})
    ELSE IF what = "expand" THEN {Some("skipped")}
    ELSE {None, Some("value")}

\* line 104: while tries < max_tries
FWLoopGuardOffByOne(f) == f.tries <= f.max

FWLoopGuard(f) == f.tries < f.max

\* lines 109-112: the Retry-After header if present, else 30
FWWaitTime(e) == IF IsNone(e.hint) THEN FallbackWait ELSE Get(e.hint)

\* lines 114-124 and 129-138: count the attempt, remember the exception, and
\* sleep only if attempts remain
FWAfterFailure(f, e, wait) ==
    [f EXCEPT !.tries = f.tries + 1,
              !.last = e,
              !.log = Append(f.log, e.kind),
              !.raised = Append(f.raised, e),
              !.sleeps = IF f.tries + 1 < f.max THEN Append(f.sleeps, wait) ELSE f.sleeps]

\* line 106: return await coro_func()
FWCallOk ==
    /\ pc = "fw_call"
    /\ FWLoopGuard(fw)
    /\ \E v \in OkValues(fw.what) :
         fw' = [fw EXCEPT !.log = Append(fw.log, "ok"), !.done = TRUE, !.result = v]
    /\ pc' = fw.ret
    /\ env' = EnvAfter(NoExc)
    /\ UNCHANGED <<txt, hr, gen, delivered, ps, tr, mn, data, src, csv>>

\* lines 107-124: except TooManyRequests
FWCallRateLimited ==
    /\ pc = "fw_call"
    /\ FWLoopGuard(fw)
    /\ \E e \in RateLimitExcs :
         /\ CanRaise(e)
         /\ fw' = FWAfterFailure(fw, e, FWWaitTime(e))
         /\ env' = EnvAfter(e)
    /\ UNCHANGED <<txt, pc, hr, gen, delivered, ps, tr, mn, data, src, csv>>

\* lines 126-138: except Exception
FWCallError ==
    /\ pc = "fw_call"
    /\ FWLoopGuard(fw)
    /\ \E e \in OtherExcs :
         /\ CanRaise(e)
         /\ fw' = FWAfterFailure(fw, e, ErrorWait)
         /\ env' = EnvAfter(e)
    /\ UNCHANGED <<txt, pc, hr, gen, delivered, ps, tr, mn, data, src, csv>>

\* lines 140-145: the loop is left without a result: log and return None
FWGiveUp ==
    /\ pc = "fw_call"
    /\ ~FWLoopGuard(fw)
    /\ fw' = [fw EXCEPT !.done = TRUE, !.result = None]
    /\ pc' = fw.ret
    /\ UNCHANGED <<txt, env, hr, gen, delivered, ps, tr, mn, data, src, csv>>


-----------------------------------------------------------------------------
(* Frames of the callers, needed by the continuations of handle_rate_limit *)

\* the listings taken in another order
CategoriesHotFirst == <<"hot", "queried", "controversial", "top", "new", "rising">>

\* listing stages of one pass, in the order of lines 296 and 302
Categories == <<"queried", "hot", "controversial", "top", "new", "rising">>

NewPS(sub, cat) == [sub |-> sub, cat |-> cat, clist |-> << >>, ci |-> 0]
IdlePS == NewPS(0, "none")

\* search_listing and posts_listing are what the two searches of this run
\* return; caller is "main", or "probe" when fetch_subreddit_content is
\* called alone; at tells where a KeyboardInterrupt arrived
NewMain ==
    [subs_from_search |-> {}, subs_from_posts |-> {}, all_subs |-> << >>, exc |-> NoExc,
     search_listing |-> << >>, posts_listing |-> << >>, at |-> "none",
     caller |-> "main"]

\* (hr.fails counts the TooManyRequests raised inside the current invocation of
\* handle_rate_limit, hr.failpos the generator position at each of them,
\* hr.iterations the times "async for" was entered)
\* idx: position of the current subreddit in the list; stage: index of the
\* current listing in Categories; passes and outcome record, per position,
\* the passes started and how the subreddit's loop was left
NewTR ==
    [idx |-> 0, tries |-> 0, stage |-> 0, exc |-> NoExc, sleeps |-> << >>,
     passes |-> << >>, outcome |-> << >>]

-----------------------------------------------------------------------------
(* handle_rate_limit and the generator it wraps *)

DefaultMaxRetries == 3
BaseDelay == 5

\* the generator object a caller builds once and passes in: an asyncpraw
\* listing generator that fetches PageSize items per request and keeps its
\* position (cursor: items yielded, loaded: items fetched)
NewGen(items) == [items |-> items, cursor |-> 0, loaded |-> 0, exhausted |-> FALSE]
IdleGen == [NewGen(<< >>) EXCEPT !.exhausted = TRUE]

NewHR(ctx, max) ==
    [ctx |-> ctx, max |-> max, retries |-> 0, sleeps |-> << >>, fails |-> 0,
     failpos |-> << >>, iterations |-> 1, exc |-> NoExc, done |-> FALSE]
IdleHR == [NewHR("none", 0) EXCEPT !.done = TRUE]

GenBuffered(g) == g.cursor < g.loaded
GenNeedsFetch(g) == ~GenBuffered(g) /\ ~g.exhausted

\* a listing request that succeeds: the next page is buffered; the last page
\* carries no continuation token
GenFetch(g) ==
    [g EXCEPT !.loaded = Min(g.loaded + PageSize, Len(g.items)),
              !.exhausted = (Min(g.loaded + PageSize, Len(g.items)) = Len(g.items))]

GenYield(g) == [g EXCEPT !.cursor = g.cursor + 1]

\* lines 74-76: after the sleep the while loop runs "async for item in
\* generator" again on the same object, whose __aiter__ returns itself
ReIterateFresh(g) == NewGen(g.items)

ReIterate(g) == g

\* line 82: wait = 5 * retries
HRWaitFlat(retries) == BaseDelay

HRWait(retries) == BaseDelay * retries

\* line 80: if retries < max_retries
HRMayRetryNever(h) == FALSE

HRMayRetryInclusive(h) == h.retries <= h.max

HRMayRetry(h) == h.retries < h.max

\* the body of the caller's "async for" for one item
ConsumePc(item) ==
    IF hr.ctx = "traverse" THEN "fw_call" ELSE "hr_iter"
ConsumeMain(item) ==
    IF hr.ctx = "subsearch"
    THEN [mn EXCEPT !.subs_from_search = mn.subs_from_search \cup {item}]
    ELSE IF hr.ctx = "postsearch"
    THEN [mn EXCEPT !.subs_from_posts = mn.subs_from_posts \cup {item}]
    ELSE mn
ConsumePS(item) ==
    IF hr.ctx = "traverse" THEN NewPS(item, Categories[tr.stage]) ELSE ps
ConsumeFW(item) ==
    IF hr.ctx = "traverse" THEN NewFW("load", DefaultMaxTries, "ps_loaded") ELSE fw

\* where the caller continues when its "async for" ends
PcAfterLoop(ctx) ==
    CASE ctx = "subsearch" -> "m_search_posts"
      [] ctx = "postsearch" -> "m_combine"
      [] ctx = "traverse" -> "tr_next_stage"
      [] OTHER -> "hr_done"

\* where an exception that leaves handle_rate_limit is handled: by the
\* try of fetch_subreddit_content, or by nobody in main (lines 345, 348)
PcOnRaise(ctx) ==
    CASE ctx \in {"subsearch", "postsearch"} -> "crashed"
      [] ctx = "traverse" -> "tr_except"
      [] OTHER -> "hr_raised"

\* lines 76-77: the generator has an item: yield it to the caller
HRYield ==
    /\ pc = "hr_iter"
    /\ \/ GenBuffered(gen) /\ gen' = GenYield(gen) /\ env' = env
       \/ /\ GenNeedsFetch(gen)
          /\ GenBuffered(GenFetch(gen))
          /\ gen' = GenYield(GenFetch(gen))
          /\ env' = EnvAfter(NoExc)
    /\ LET item == gen.items[gen.cursor + 1] IN
         /\ delivered' = Append(delivered, item)
         /\ pc' = ConsumePc(item)
         /\ mn' = ConsumeMain(item)
         /\ ps' = ConsumePS(item)
         /\ fw' = ConsumeFW(item)
    /\ UNCHANGED <<txt, hr, tr, data, src, csv>>

\* lines 76-78: the generator is exhausted: the loop ends, break
HRStop ==
    /\ pc = "hr_iter"
    /\ ~GenBuffered(gen)
    /\ \/ gen.exhausted /\ gen' = gen /\ env' = env
       \/ /\ GenNeedsFetch(gen)
          /\ ~GenBuffered(GenFetch(gen))
          /\ gen' = GenFetch(gen)
          /\ env' = EnvAfter(NoExc)
    /\ hr' = [hr EXCEPT !.done = TRUE]
    /\ pc' = PcAfterLoop(hr.ctx)
    /\ UNCHANGED <<txt, fw, delivered, ps, tr, mn, data, src, csv>>

\* lines 79-87: TooManyRequests with retries left: sleep, iterate again
HRRetry ==
    /\ pc = "hr_iter"
    /\ GenNeedsFetch(gen)
    /\ HRMayRetry(hr)
    /\ \E e \in RateLimitExcs :
         /\ CanRaise(e)
         /\ env' = EnvAfter(e)
         /\ hr' = [hr EXCEPT !.retries = hr.retries + 1,
                             !.fails = hr.fails + 1,
                             !.failpos = Append(hr.failpos, gen.cursor),
                             !.iterations = hr.iterations + 1,
                             !.sleeps = Append(hr.sleeps, HRWait(hr.retries + 1))]
    /\ gen' = ReIterate(gen)
    /\ UNCHANGED <<txt, pc, fw, delivered, ps, tr, mn, data, src, csv>>

\* lines 88-90: TooManyRequests with no retry left: log and re-raise it
HRGiveUp ==
    /\ pc = "hr_iter"
    /\ GenNeedsFetch(gen)
    /\ ~HRMayRetry(hr)
    /\ \E e \in RateLimitExcs :
         /\ CanRaise(e)
         /\ env' = EnvAfter(e)
         /\ hr' = [hr EXCEPT !.fails = hr.fails + 1,
                             !.failpos = Append(hr.failpos, gen.cursor),
                             !.exc = e, !.done = TRUE]
         /\ tr' = IF hr.ctx = "traverse" THEN [tr EXCEPT !.exc = e] ELSE tr
         /\ mn' = IF PcOnRaise(hr.ctx) = "crashed" THEN [mn EXCEPT !.exc = e] ELSE mn
    /\ pc' = PcOnRaise(hr.ctx)
    /\ UNCHANGED <<txt, fw, gen, delivered, ps, data, src, csv>>

\* another exception handled like a rate limit: sleep and iterate again
HRErrorRetries ==
    /\ pc = "hr_iter"
    /\ GenNeedsFetch(gen)
    /\ \E e \in OtherExcs :
         /\ CanRaise(e)
         /\ env' = EnvAfter(e)
         /\ hr' = [hr EXCEPT !.exc = e,
                             !.retries = hr.retries + 1,
                             !.iterations = hr.iterations + 1,
                             !.sleeps = Append(hr.sleeps, BaseDelay)]
    /\ UNCHANGED <<txt, pc, fw, gen, delivered, ps, tr, mn, data, src, csv>>

\* lines 91-93: any other exception: log and re-raise it
HRError ==
    /\ pc = "hr_iter"
    /\ GenNeedsFetch(gen)
    /\ \E e \in OtherExcs :
         /\ CanRaise(e)
         /\ env' = EnvAfter(e)
         /\ hr' = [hr EXCEPT !.exc = e, !.done = TRUE]
         /\ tr' = IF hr.ctx = "traverse" THEN [tr EXCEPT !.exc = e] ELSE tr
         /\ mn' = IF PcOnRaise(hr.ctx) = "crashed" THEN [mn EXCEPT !.exc = e] ELSE mn
    /\ pc' = PcOnRaise(hr.ctx)
    /\ UNCHANGED <<txt, fw, gen, delivered, ps, data, src, csv>>

-----------------------------------------------------------------------------
(* The data container *)

Columns ==
    <<"text", "title", "upvotes", "type", "date", "post_flair", "user_flair",
      "parent_text", "subreddit", "category">>

\* lines 147-162: create_data_container
create_data_container == [c \in {Columns[i] : i \in 1..Len(Columns)} |-> << >>]

-----------------------------------------------------------------------------
(* The platform's content, as the API returns it *)

T_GreatPhone == <<"G", "r", "e", "a", "t", " ", "p", "h", "o", "n", "e">>
T_IAgree == <<"I", " ", "a", "g", "r", "e", "e">>
T_SameHere == <<"S", "a", "m", "e", " ", "h", "e", "r", "e">>
T_NiceScreen == <<"n", "i", "c", "e", " ", "s", "c", "r", "e", "e", "n", " ", "h", "t", "t", "p", ":", "/", "/", "x", ".", "y">>
T_Battery == <<"b", "a", "t", "t", "e", "r", "y", " ", "i", "s", " ", "g", "o", "o", "d">>
T_Foreign == <<"#", "#", "#", "#", "#", " ", "#", "#", "#", "#", "#">>
T_Hi == <<"H", "i">>
T_GoodPhoneUrl == <<"g", "o", "o", "d", " ", "p", "h", "o", "n", "e", " ", "w", "w", "w", ".", "x", ".", "y">>
T_OkUrl == <<"o", "k", " ", "w", "w", "w", ".", "a", "b", "c", "d", "e", "f", "g", "h", ".", "i", "j">>
T_Empty == << >>

Subreddits == {"A", "B", "C"}

\* what reddit.subreddits.search and the search of r/all may return in a run:
\* the display names of the subreddits found (search) and of the subreddits of
\* the posts found (posts)
SearchResults ==
    { [search |-> << >>, posts |-> << >>],
      [search |-> <<"A", "B">>, posts |-> <<"B">>],
      [search |-> <<"C">>, posts |-> <<"B", "C", "B">>],
      [search |-> << >>, posts |-> <<"A">>] }

\* the lists fetch_subreddit_content is exercised with when called alone
ContentInputs == { <<"A", "B", "C">>, <<"C", "A">>, <<"B">>, <<"C">> }

NewSubmission(sub, title, selftext, score, fetched, expanded) ==
    [subreddit |-> sub, title |-> title, selftext |-> selftext, score |-> score,
     created_utc |-> 20, link_flair_text |-> None, author_flair_text |-> None,
     fetched |-> fetched, expanded |-> expanded]

\* fetched: the entries of submission.comments after load(); expanded: after
\* replace_more(limit=None)
Submission(id) ==
    CASE id = 1 -> NewSubmission("A", Some(T_GreatPhone), Some(T_Empty), 10,
                                 <<1, 90>>, <<1, 2, 3>>)
      [] id = 2 -> NewSubmission("A", Some(T_Foreign), None, 4, <<4>>, <<4>>)
      [] id = 3 -> [NewSubmission("B", Some(T_Hi), Some(T_GoodPhoneUrl), 0 - 2,
                                  <<5, 6>>, <<5, 6, 8, 9>>)
                      EXCEPT !.link_flair_text = Some(T_Hi)]
      [] id = 4 -> NewSubmission("C", Some(T_GreatPhone), Some(T_Empty), 10,
                                 <<7>>, <<7>>)
      [] id = 5 -> NewSubmission("B", None, Some(T_Battery), 1, <<10>>, <<10, 11>>)
      [] OTHER -> NewSubmission("A", None, Some(T_OkUrl), 1, << >>, << >>)

\* parent: 0 for the submission, the id of a comment of the tree, or -1 for a
\* parent that is not available locally (no body attribute);
\* hasBody is FALSE for a MoreComments placeholder
NewComment(body, score, parent) ==
    [hasBody |-> TRUE, body |-> body, score |-> score, created_utc |-> 21,
     author_flair_text |-> None, parent |-> parent]

Comment(id) ==
    CASE id = 1 -> NewComment(T_NiceScreen, 5, 0)
      [] id = 2 -> NewComment(T_IAgree, 1, 1)
      [] id = 3 -> NewComment(T_Battery, 2, 1)
      [] id = 4 -> NewComment(T_Battery, 2, 0)
      [] id = 5 -> NewComment(T_Foreign, 1, 0)
      [] id = 6 -> NewComment(T_Battery, 0 - 1, 5)
      [] id = 7 -> NewComment(T_IAgree, 3, 0)
      [] id = 8 -> NewComment(T_SameHere, 1, 0)
      [] id = 9 -> [NewComment(T_NiceScreen, 6, 8) EXCEPT !.author_flair_text = Some(T_Hi)]
      [] id = 10 -> NewComment(T_Battery, 1, 0 - 1)
      [] id = 11 -> NewComment(T_OkUrl, 1, 10)
      [] OTHER -> [NewComment(T_Empty, 0, 0) EXCEPT !.hasBody = FALSE]

\* the listing of a subreddit under a category: subreddit.search(term) for
\* "queried", getattr(subreddit, category)() otherwise
Listing(sub, cat) ==
    CASE sub = "A" /\ cat = "queried" -> <<1>>
      [] sub = "A" /\ cat = "hot" -> <<2>>
      [] sub = "A" /\ cat = "rising" -> <<6>>
      [] sub = "B" /\ cat = "queried" -> <<3>>
      [] sub = "B" /\ cat = "top" -> <<3>>
      [] sub = "B" /\ cat = "new" -> <<5>>
      [] sub = "C" /\ cat = "new" -> <<4>>
      [] OTHER -> << >>

-----------------------------------------------------------------------------
(* localize_timestamp *)

\* offset of America/New_York from UTC, in the hours timestamps are counted in
UtcOffset == 0 - 5

\* lines 164-170: the local time and its offset, as isoformat() prints them
localize_timestamp(utc) == <<utc + UtcOffset, UtcOffset>>

-----------------------------------------------------------------------------
(* process_submission and process_comments *)

\* "x or ''" and "x or None" for an optional text
OrEmpty(o) == IF IsNone(o) THEN T_Empty ELSE Get(o)
OrNone(o) == IF IsNone(o) \/ Get(o) = T_Empty THEN None ELSE o

\* lines 187-190: the cleaned title and body joined by a newline
CombinedText(s) == clean_text(Strip(OrEmpty(s.title) \o <<NL>> \o OrEmpty(s.selftext)))

\* lines 195-204: the row of a post, in the order its columns are appended
PostRow(s, cat) ==
    <<  <<"title", Some(clean_text(OrEmpty(s.title)))>>,
        <<"text", Some(clean_text(OrEmpty(s.selftext)))>>,
        <<"upvotes", Some(s.score)>>,
        <<"type", Some("post")>>,
        <<"date", Some(localize_timestamp(s.created_utc))>>,
        <<"post_flair", OrNone(s.link_flair_text)>>,
        <<"user_flair", OrNone(s.author_flair_text)>>,
        <<"parent_text", None>>,
        <<"subreddit", Some(s.subreddit)>>,
        <<"category", Some(cat)>>  >>

\* lines 233-239: the parent's cleaned body if the parent is another comment
\* that is available locally and whose cleaned body is English, else None
ParentTextUnfiltered(c) ==
    IF c.parent > 0 /\ Comment(c.parent).hasBody
    THEN Some(clean_text(Comment(c.parent).body))
    ELSE None

ParentText(c) ==
    IF c.parent > 0 /\ Comment(c.parent).hasBody
          /\ is_english(clean_text(Comment(c.parent).body))
    THEN Some(clean_text(Comment(c.parent).body))
    ELSE None

\* lines 245-254: the row of a comment, in the order its columns are appended
CommentRow(c, s, cat) ==
    <<  <<"title", None>>,
        <<"text", Some(clean_text(c.body))>>,
        <<"upvotes", Some(c.score)>>,
        <<"type", Some("comment")>>,
        <<"date", Some(localize_timestamp(c.created_utc))>>,
        <<"post_flair", None>>,
        <<"user_flair", OrNone(c.author_flair_text)>>,
        <<"parent_text", ParentText(c)>>,
        <<"subreddit", Some(s.subreddit)>>,
        <<"category", Some(cat)>>  >>

\* the items of the content, and for each the outcome of the filter and the
\* row it gives, computed once
SubmissionIds == 1..6
CommentIds == (1..11) \cup {90}
CategorySet == {Categories[i] : i \in 1..Len(Categories)}

\* lines 186-193: the filter on the cleaned title and body of a submission
PostAccepted == [id \in SubmissionIds |-> is_english(CombinedText(Submission(id)))]

\* lines 226-228: the filter on the cleaned body of a comment
CommentAccepted == [id \in CommentIds |-> is_english(clean_text(Comment(id).body))]

\* lines 189-190: cleaned_combined of each submission
PostCombined == [id \in SubmissionIds |-> CombinedText(Submission(id))]

\* line 226: comment_text of each comment
CleanBody == [id \in CommentIds |-> clean_text(Comment(id).body)]

PostRowOf == [id \in SubmissionIds |-> [cat \in CategorySet |-> PostRow(Submission(id), cat)]]

CommentRowOf == [id \in CommentIds |-> [sid \in SubmissionIds |-> [cat \in CategorySet |-> CommentRow(Comment(id), Submission(sid), cat)]]]

\* appends that start every column they touch afresh
AppendRowFresh(d, row, n) ==
    [col \in DOMAIN d |->
        IF \E i \in 1..n : row[i][1] = col
        THEN << row[CHOOSE i \in 1..n : row[i][1] = col][2] >>
        ELSE d[col]]

\* the container after the first n appends of a row
AppendRow(d, row, n) ==
    [col \in DOMAIN d |->
        IF \E i \in 1..n : row[i][1] = col
        THEN Append(d[col], row[CHOOSE i \in 1..n : row[i][1] = col][2])
        ELSE d[col]]

\* the reads of a post's fields that may raise, by the number of columns
\* appended before them: created_utc/title/selftext (0), score (2),
\* link_flair_text (5), author_flair_text (6), subreddit.display_name (8)
PostFailPoints == {0, 2, 5, 6, 8}
\* the same for a comment: body/created_utc/parent (0), score (2),
\* author_flair_text (6), subreddit.display_name (8)
CommentFailPoints == {0, 2, 6, 8}
ShapeError == Exc("Exception", None)

SrcEntry(kind, id, cat, n) == [kind |-> kind, id |-> id, cat |-> cat, sub |-> tr.idx, n |-> n]

\* a terminal load failure that is raised to the caller instead
PSSkipUnloadedRaises ==
    /\ pc = "ps_loaded"
    /\ IsNone(fw.result)
    /\ tr' = [tr EXCEPT !.exc = fw.last]
    /\ pc' = "tr_except"
    /\ fw' = IdleFW /\ ps' = IdlePS
    /\ UNCHANGED <<txt, env, hr, gen, delivered, mn, data, src, csv>>

\* lines 182-184: fetch_with_retry returned None: skip the submission
PSSkipUnloaded ==
    /\ pc = "ps_loaded"
    /\ IsNone(fw.result)
    /\ pc' = "hr_iter"
    /\ fw' = IdleFW /\ ps' = IdlePS
    /\ UNCHANGED <<txt, env, hr, gen, delivered, tr, mn, data, src, csv>>

\* a rejected submission whose comments are expanded and walked all the same
PSRejectDescends ==
    /\ pc = "ps_loaded"
    /\ ~IsNone(fw.result)
    /\ ~PostAccepted[ps.sub]
    /\ fw' = NewFW("expand", DefaultMaxTries, "pc_list")
    /\ pc' = "fw_call"
    /\ UNCHANGED <<txt, env, hr, gen, delivered, ps, tr, mn, data, src, csv>>

\* lines 186-193: the cleaned title and body are not English: return
PSReject ==
    /\ pc = "ps_loaded"
    /\ ~IsNone(fw.result)
    /\ ~PostAccepted[ps.sub]
    /\ pc' = "hr_iter"
    /\ fw' = IdleFW /\ ps' = IdlePS
    /\ UNCHANGED <<txt, env, hr, gen, delivered, tr, mn, data, src, csv>>

\* lines 195-206: append the post's row, then call process_comments, which
\* starts by expanding the comment tree through fetch_with_retry
PSEmitPost ==
    /\ pc = "ps_loaded"
    /\ ~IsNone(fw.result)
    /\ PostAccepted[ps.sub]
    /\ data' = AppendRow(data, PostRowOf[ps.sub][ps.cat], Len(Columns))
    /\ src' = Append(src, SrcEntry("post", ps.sub, ps.cat, Len(Columns)))
    /\ fw' = NewFW("expand", DefaultMaxTries, "pc_list")
    /\ pc' = "fw_call"
    /\ UNCHANGED <<txt, env, hr, gen, delivered, ps, tr, mn, csv>>

\* lines 186-209: reading a field of the submission raises: the columns
\* appended so far stay, the except clause logs and the function returns
PSShapeError ==
    /\ pc = "ps_loaded"
    /\ ~IsNone(fw.result)
    /\ CanRaise(ShapeError)
    /\ \E n \in PostFailPoints :
         /\ n > 0 => PostAccepted[ps.sub]
         /\ data' = AppendRow(data, PostRowOf[ps.sub][ps.cat], n)
         /\ src' = IF n > 0 THEN Append(src, SrcEntry("post", ps.sub, ps.cat, n)) ELSE src
    /\ env' = EnvAfter(ShapeError)
    /\ pc' = "hr_iter"
    /\ fw' = IdleFW /\ ps' = IdlePS
    /\ UNCHANGED <<txt, hr, gen, delivered, tr, mn, csv>>

\* line 222: submission.comments.list(): the whole tree if replace_more
\* succeeded, else what load() had fetched, placeholders included
PCList ==
    /\ pc = "pc_list"
    /\ ps' = [ps EXCEPT !.clist = IF IsNone(fw.result) THEN Submission(ps.sub).fetched
                                  ELSE Submission(ps.sub).expanded,
                        !.ci = 1]
    /\ pc' = "pc_walk"
    /\ fw' = IdleFW
    /\ UNCHANGED <<txt, env, hr, gen, delivered, tr, mn, data, src, csv>>

CurrentComment == Comment(ps.clist[ps.ci])

\* lines 223-224: an entry without a body is skipped
PCSkipNoBody ==
    /\ pc = "pc_walk"
    /\ ps.ci <= Len(ps.clist)
    /\ ~CurrentComment.hasBody
    /\ ps' = [ps EXCEPT !.ci = ps.ci + 1]
    /\ UNCHANGED <<txt, pc, env, fw, hr, gen, delivered, tr, mn, data, src, csv>>

\* lines 226-228: a comment whose cleaned body is not English is skipped
PCSkipNotEnglish ==
    /\ pc = "pc_walk"
    /\ ps.ci <= Len(ps.clist)
    /\ CurrentComment.hasBody
    /\ ~CommentAccepted[ps.clist[ps.ci]]
    /\ ps' = [ps EXCEPT !.ci = ps.ci + 1]
    /\ UNCHANGED <<txt, pc, env, fw, hr, gen, delivered, tr, mn, data, src, csv>>

\* lines 230-254: append the comment's row
PCEmitComment ==
    /\ pc = "pc_walk"
    /\ ps.ci <= Len(ps.clist)
    /\ CurrentComment.hasBody
    /\ CommentAccepted[ps.clist[ps.ci]]
    /\ data' = AppendRow(data, CommentRowOf[ps.clist[ps.ci]][ps.sub][ps.cat],
                         Len(Columns))
    /\ src' = Append(src, SrcEntry("comment", ps.clist[ps.ci], ps.cat, Len(Columns)))
    /\ ps' = [ps EXCEPT !.ci = ps.ci + 1]
    /\ UNCHANGED <<txt, pc, env, fw, hr, gen, delivered, tr, mn, csv>>

\* lines 226-254 and 208-209: reading a field of the comment raises: the
\* exception leaves process_comments and is caught by process_submission,
\* which logs it and returns
PCShapeError ==
    /\ pc = "pc_walk"
    /\ ps.ci <= Len(ps.clist)
    /\ CurrentComment.hasBody
    /\ CanRaise(ShapeError)
    /\ \E n \in CommentFailPoints :
         /\ n > 0 => CommentAccepted[ps.clist[ps.ci]]
         /\ data' = AppendRow(data, CommentRowOf[ps.clist[ps.ci]][ps.sub][ps.cat], n)
         /\ src' = IF n > 0
                   THEN Append(src, SrcEntry("comment", ps.clist[ps.ci], ps.cat, n))
                   ELSE src
    /\ env' = EnvAfter(ShapeError)
    /\ pc' = "hr_iter"
    /\ ps' = IdlePS
    /\ UNCHANGED <<txt, fw, hr, gen, delivered, tr, mn, csv>>

\* line 222: the loop over the comments ends; process_submission returns
PCDone ==
    /\ pc = "pc_walk"
    /\ ps.ci > Len(ps.clist)
    /\ pc' = "hr_iter"
    /\ ps' = IdlePS
    /\ UNCHANGED <<txt, env, fw, hr, gen, delivered, tr, mn, data, src, csv>>

-----------------------------------------------------------------------------
(* fetch_subreddit_content *)

\* one try more
OuterMaxTriesPlusOne == 3 + 1

OuterMaxTries == 3

CurrentSub == mn.all_subs[tr.idx]

Bump(seq, i) == [seq EXCEPT ![i] = seq[i] + 1]

\* lines 285-288: the for loop takes the next subreddit
TRNextSub ==
    /\ pc = "tr_next_sub"
    /\ tr.idx < Len(mn.all_subs)
    /\ tr' = [tr EXCEPT !.idx = tr.idx + 1, !.tries = 0, !.stage = 0, !.exc = NoExc,
                        !.sleeps = << >>, !.passes = Append(tr.passes, 0)]
    /\ pc' = "tr_pass"
    /\ UNCHANGED <<txt, env, fw, hr, gen, delivered, ps, mn, data, src, csv>>

\* line 338: the list is finished: return data
TRReturn ==
    /\ pc = "tr_next_sub"
    /\ tr.idx = Len(mn.all_subs)
    /\ pc' = IF mn.caller = "main" THEN "m_build" ELSE "fc_returned"
    /\ UNCHANGED <<txt, env, fw, hr, gen, delivered, ps, tr, mn, data, src, csv>>

\* lines 290-298: a pass starts: the subreddit is resolved and the term search
\* is wrapped in handle_rate_limit
TRStartPass ==
    /\ pc = "tr_pass"
    /\ tr.tries < OuterMaxTries
    /\ env' = EnvAfter(NoExc)
    /\ tr' = [tr EXCEPT !.stage = 1, !.passes = Bump(tr.passes, tr.idx)]
    /\ hr' = NewHR("traverse", DefaultMaxRetries)
    /\ gen' = NewGen(Listing(CurrentSub, Categories[1]))
    /\ delivered' = << >>
    /\ pc' = "hr_iter"
    /\ UNCHANGED <<txt, fw, ps, mn, data, src, csv>>

\* line 292: resolving the subreddit raises
TRSubredditFails ==
    /\ pc = "tr_pass"
    /\ tr.tries < OuterMaxTries
    /\ \E e \in RateLimitExcs \cup OtherExcs :
         /\ CanRaise(e)
         /\ env' = EnvAfter(e)
         /\ tr' = [tr EXCEPT !.exc = e, !.passes = Bump(tr.passes, tr.idx)]
    /\ pc' = "tr_except"
    /\ UNCHANGED <<txt, fw, hr, gen, delivered, ps, mn, data, src, csv>>

\* line 290: tries has reached max_tries: the while loop ends
TRExhausted ==
    /\ pc = "tr_pass"
    /\ ~(tr.tries < OuterMaxTries)
    /\ tr' = [tr EXCEPT !.outcome = Append(tr.outcome, "exhausted")]
    /\ pc' = "tr_next_sub"
    /\ UNCHANGED <<txt, env, fw, hr, gen, delivered, ps, mn, data, src, csv>>

\* lines 302-306: the next category's listing is wrapped and iterated
TRNextListing ==
    /\ pc = "tr_next_stage"
    /\ tr.stage < Len(Categories)
    /\ tr' = [tr EXCEPT !.stage = tr.stage + 1]
    /\ hr' = NewHR("traverse", DefaultMaxRetries)
    /\ gen' = NewGen(Listing(CurrentSub, Categories[tr.stage + 1]))
    /\ delivered' = << >>
    /\ pc' = "hr_iter"
    /\ UNCHANGED <<txt, env, fw, ps, mn, data, src, csv>>

\* lines 308-309: all listings done: break out of the retry loop
TRFinished ==
    /\ pc = "tr_next_stage"
    /\ tr.stage = Len(Categories)
    /\ tr' = [tr EXCEPT !.outcome = Append(tr.outcome, "finished")]
    /\ pc' = "tr_next_sub"
    /\ UNCHANGED <<txt, env, fw, hr, gen, delivered, ps, mn, data, src, csv>>

\* a rate-limit handler that throws away what the failed pass appended
TRRateLimitedClears ==
    /\ pc = "tr_except"
    /\ tr.exc.kind = "TooManyRequests"
    /\ tr' = [tr EXCEPT !.tries = tr.tries + 1,
                        !.sleeps = Append(tr.sleeps, FWWaitTime(tr.exc))]
    /\ pc' = "tr_pass"
    /\ hr' = IdleHR /\ gen' = IdleGen /\ delivered' = << >>
    /\ data' = create_data_container /\ src' = << >>
    /\ UNCHANGED <<txt, env, fw, ps, mn, csv>>

\* (the frames of handle_rate_limit and of its generator end when the
\* exception leaves them)
\* lines 311-324: except TooManyRequests: count the try, sleep, loop again
TRRateLimited ==
    /\ pc = "tr_except"
    /\ tr.exc.kind = "TooManyRequests"
    /\ tr' = [tr EXCEPT !.tries = tr.tries + 1,
                        !.sleeps = Append(tr.sleeps, FWWaitTime(tr.exc))]
    /\ pc' = "tr_pass"
    /\ hr' = IdleHR /\ gen' = IdleGen /\ delivered' = << >>
    /\ UNCHANGED <<txt, env, fw, ps, mn, data, src, csv>>

\* a handler that leaves the for loop over the subreddits as well
AbandonRun == [tr EXCEPT !.outcome = Append(tr.outcome, tr.exc.kind), !.idx = Len(mn.all_subs)]

\* what the handlers of lines 326-336 do: log and break
Abandon == [tr EXCEPT !.outcome = Append(tr.outcome, tr.exc.kind)]

\* lines 326-328: except Forbidden
TRForbidden ==
    /\ pc = "tr_except"
    /\ tr.exc.kind = "Forbidden"
    /\ tr' = Abandon
    /\ pc' = "tr_next_sub"
    /\ hr' = IdleHR /\ gen' = IdleGen /\ delivered' = << >>
    /\ UNCHANGED <<txt, env, fw, ps, mn, data, src, csv>>

\* lines 330-332: except NotFound
TRNotFound ==
    /\ pc = "tr_except"
    /\ tr.exc.kind = "NotFound"
    /\ tr' = Abandon
    /\ pc' = "tr_next_sub"
    /\ hr' = IdleHR /\ gen' = IdleGen /\ delivered' = << >>
    /\ UNCHANGED <<txt, env, fw, ps, mn, data, src, csv>>

\* lines 334-336: except Exception
TRError ==
    /\ pc = "tr_except"
    /\ tr.exc.kind = "Exception"
    /\ tr' = Abandon
    /\ pc' = "tr_next_sub"
    /\ hr' = IdleHR /\ gen' = IdleGen /\ delivered' = << >>
    /\ UNCHANGED <<txt, env, fw, ps, mn, data, src, csv>>

-----------------------------------------------------------------------------
(* main *)

\* the orders list(set) may produce
Orderings(S) ==
    {q \in [1..Cardinality(S) -> S] : \A i, j \in 1..Cardinality(S) : q[i] = q[j] => i = j}

\* lines 345 and 260-262: search_subreddits wraps the subreddit search
MSearchSubreddits ==
    /\ pc = "m_start"
    /\ hr' = NewHR("subsearch", DefaultMaxRetries)
    /\ gen' = NewGen(mn.search_listing)
    /\ delivered' = << >>
    /\ pc' = "hr_iter"
    /\ UNCHANGED <<txt, env, fw, ps, tr, mn, data, src, csv>>

\* lines 348 and 271-274: search_posts resolves r/all and wraps its search
MSearchPosts ==
    /\ pc = "m_search_posts"
    /\ env' = EnvAfter(NoExc)
    /\ hr' = NewHR("postsearch", DefaultMaxRetries)
    /\ gen' = NewGen(mn.posts_listing)
    /\ delivered' = << >>
    /\ pc' = "hr_iter"
    /\ UNCHANGED <<txt, fw, ps, tr, mn, data, src, csv>>

\* line 273: resolving r/all raises; nothing in main catches it
MSearchPostsFails ==
    /\ pc = "m_search_posts"
    /\ \E e \in RateLimitExcs \cup OtherExcs :
         /\ CanRaise(e)
         /\ env' = EnvAfter(e)
         /\ mn' = [mn EXCEPT !.exc = e]
    /\ pc' = "crashed"
    /\ UNCHANGED <<txt, fw, hr, gen, delivered, ps, tr, data, src, csv>>

\* lines 351-358: no subreddit found: log and return
MNoSubreddits ==
    /\ pc = "m_combine"
    /\ mn.subs_from_search \cup mn.subs_from_posts = {}
    /\ pc' = "exit_empty"
    /\ UNCHANGED <<txt, env, fw, hr, gen, delivered, ps, tr, mn, data, src, csv>>

\* lines 351-361 and 283: the union as a list, then fetch_subreddit_content
MFetch ==
    /\ pc = "m_combine"
    /\ mn.subs_from_search \cup mn.subs_from_posts # {}
    /\ \E q \in Orderings(mn.subs_from_search \cup mn.subs_from_posts) :
         mn' = [mn EXCEPT !.all_subs = q]
    /\ tr' = NewTR
    /\ data' = create_data_container
    /\ src' = << >>
    /\ pc' = "tr_next_sub"
    /\ UNCHANGED <<txt, env, fw, hr, gen, delivered, ps, csv>>

Aligned(d) == \A c1, c2 \in DOMAIN d : Len(d[c1]) = Len(d[c2])

\* lines 364-369: the DataFrame is built and written
MMaterialize ==
    /\ pc = "m_build"
    /\ Aligned(data)
    /\ csv' = Some(data)
    /\ pc' = "done"
    /\ UNCHANGED <<txt, env, fw, hr, gen, delivered, ps, tr, mn, data, src>>

\* line 364: pd.DataFrame raises ValueError on columns of unequal length
MBuildFails ==
    /\ pc = "m_build"
    /\ ~Aligned(data)
    /\ mn' = [mn EXCEPT !.exc = Exc("Exception", None)]
    /\ pc' = "crashed"
    /\ UNCHANGED <<txt, env, fw, hr, gen, delivered, ps, tr, data, src, csv>>

Terminal == {"done", "crashed", "exit_empty", "interrupted", "fc_returned"}

\* the part of main the run is in
InFetch == pc \notin Terminal \cup {"m_start", "m_search_posts", "m_combine", "m_build"}
             /\ (pc = "hr_iter" => hr.ctx = "traverse")

\* lines 370-372: KeyboardInterrupt, raised wherever the run is, is caught
\* only by main: the frames below main end, the client is closed and main
\* returns.  mn.at tells whether fetch_subreddit_content was running; data
\* keeps showing what its container held when the exception left it.
Interrupt ==
    /\ pc \notin Terminal
    /\ mn' = [mn EXCEPT !.exc = Exc("KeyboardInterrupt", None),
                        !.at = IF InFetch THEN "fetch" ELSE "main"]
    /\ pc' = "interrupted"
    /\ fw' = IdleFW /\ hr' = IdleHR /\ gen' = IdleGen /\ delivered' = << >>
    /\ ps' = IdlePS
    /\ UNCHANGED <<txt, env, tr, data, src, csv>>

Init ==
    /\ pc = "m_start"
    /\ \E b \in BOOLEAN : env = NewEnv(MaxFaults, b)
    /\ \E r \in SearchResults :
         mn = [NewMain EXCEPT !.search_listing = r.search, !.posts_listing = r.posts]
    /\ fw = IdleFW /\ hr = IdleHR /\ gen = IdleGen /\ delivered = << >>
    /\ ps = IdlePS /\ tr = NewTR
    /\ data = create_data_container /\ src = << >> /\ csv = None /\ txt = IdleTxt

Step ==
    \/ FWCallOk \/ FWCallRateLimited \/ FWCallError \/ FWGiveUp
    \/ HRYield \/ HRStop \/ HRRetry \/ HRGiveUp \/ HRError
    \/ PSSkipUnloaded \/ PSReject \/ PSEmitPost \/ PSShapeError
    \/ PCList \/ PCSkipNoBody \/ PCSkipNotEnglish \/ PCEmitComment \/ PCShapeError \/ PCDone
    \/ TRNextSub \/ TRReturn \/ TRStartPass \/ TRSubredditFails \/ TRExhausted
    \/ TRNextListing \/ TRFinished \/ TRRateLimited \/ TRForbidden \/ TRNotFound \/ TRError
    \/ MSearchSubreddits \/ MSearchPosts \/ MSearchPostsFails \/ MNoSubreddits \/ MFetch
    \/ MMaterialize \/ MBuildFails

Next == Step \/ Interrupt

\* fetch_subreddit_content called alone with a list of subreddits
InitContent ==
    /\ pc = "tr_next_sub"
    /\ \E b \in BOOLEAN : env = NewEnv(MaxFaults, b)
    /\ \E l \in ContentInputs : mn = [NewMain EXCEPT !.all_subs = l, !.caller = "probe"]
    /\ fw = IdleFW /\ hr = IdleHR /\ gen = IdleGen /\ delivered = << >>
    /\ ps = IdlePS /\ tr = NewTR
    /\ data = create_data_container /\ src = << >> /\ csv = None /\ txt = IdleTxt

StepContent ==
    \/ FWCallOk \/ FWCallRateLimited \/ FWCallError \/ FWGiveUp
    \/ HRYield \/ HRStop \/ HRRetry \/ HRGiveUp \/ HRError
    \/ PSSkipUnloaded \/ PSReject \/ PSEmitPost \/ PSShapeError
    \/ PCList \/ PCSkipNoBody \/ PCSkipNotEnglish \/ PCEmitComment \/ PCShapeError \/ PCDone
    \/ TRNextSub \/ TRReturn \/ TRStartPass \/ TRSubredditFails \/ TRExhausted
    \/ TRNextListing \/ TRFinished \/ TRRateLimited \/ TRForbidden \/ TRNotFound \/ TRError

NextContent == StepContent \/ Interrupt

SpecContent == InitContent /\ [][NextContent]_vars

\* the event loop keeps running the coroutine until it ends
FairContent == SpecContent /\ WF_vars(StepContent)

Spec == Init /\ [][Next]_vars

\* the event loop keeps running the coroutine until it ends
FairSpec == Spec /\ WF_vars(Step)

-----------------------------------------------------------------------------
(* The wrappers exercised alone *)

\* fetch_with_retry called with any max_tries on any call
InitFetch ==
    /\ pc = "fw_call"
    /\ \E m \in 0..MaxTriesBound : fw = NewFW("probe", m, "fw_done")
    /\ env = NewEnv(MaxWrapperFaults, TRUE)
    /\ hr = IdleHR /\ gen = IdleGen /\ delivered = << >>
    /\ ps = IdlePS /\ tr = NewTR /\ mn = NewMain
    /\ data = create_data_container /\ src = << >> /\ csv = None /\ txt = IdleTxt

NextFetch == FWCallOk \/ FWCallRateLimited \/ FWCallError \/ FWGiveUp

SpecFetch == InitFetch /\ [][NextFetch]_vars

\* handle_rate_limit called with any max_retries on any listing 1..n
InitSeq ==
    /\ pc = "hr_iter"
    /\ \E m \in 0..MaxTriesBound : hr = NewHR("probe", m)
    /\ \E n \in 0..MaxListing : gen = NewGen([i \in 1..n |-> i])
    /\ env = NewEnv(MaxWrapperFaults, TRUE)
    /\ fw = IdleFW /\ delivered = << >>
    /\ ps = IdlePS /\ tr = NewTR /\ mn = NewMain
    /\ data = create_data_container /\ src = << >> /\ csv = None /\ txt = IdleTxt

NextSeq == HRYield \/ HRStop \/ HRRetry \/ HRGiveUp \/ HRError

SpecSeq == InitSeq /\ [][NextSeq]_vars


\* the two wrappers exercised alone, either one
InitWrappers == InitFetch \/ InitSeq

NextWrappers == NextFetch \/ NextSeq

SpecWrappers == InitWrappers /\ [][NextWrappers]_vars

\* clean_text applied to a text and then to its own result
MaxTextLen == 6

TextAlphabet == {"h", "t", "p", "w", " "}

Texts == UNION {[1..n -> TextAlphabet] : n \in 0..MaxTextLen}

InitText ==
    /\ pc = "ct_start"
    /\ \E x \in Texts : txt = [IdleTxt EXCEPT !.input = x]
    /\ env = NewEnv(0, TRUE)
    /\ fw = IdleFW /\ hr = IdleHR /\ gen = IdleGen /\ delivered = << >>
    /\ ps = IdlePS /\ tr = NewTR /\ mn = NewMain
    /\ data = create_data_container /\ src = << >> /\ csv = None

CTClean ==
    /\ pc = "ct_start"
    /\ txt' = [txt EXCEPT !.once = clean_text(txt.input)]
    /\ pc' = "ct_once"
    /\ UNCHANGED <<env, fw, hr, gen, delivered, ps, tr, mn, data, src, csv>>

CTCleanAgain ==
    /\ pc = "ct_once"
    /\ txt' = [txt EXCEPT !.twice = clean_text(txt.once)]
    /\ pc' = "ct_done"
    /\ UNCHANGED <<env, fw, hr, gen, delivered, ps, tr, mn, data, src, csv>>

NextText == CTClean \/ CTCleanAgain

SpecText == InitText /\ [][NextText]_vars

-----------------------------------------------------------------------------
(* Claims about fetch_with_retry, checked under SpecFetch *)

AllRateLimited(log) == \A i \in 1..Len(log) : log[i] = "TooManyRequests"

\* C1: when the wrapped call raises TooManyRequests every time it is invoked,
\* fetch_with_retry (max_tries >= 1) never invokes it more than max_tries times,
\* control never leaves the wrapper by an exception, and when it has returned
\* it has invoked the call exactly max_tries times and returns None.
C1_ExhaustionReturnsNone ==
    (fw.max >= 1 /\ AllRateLimited(fw.log)) =>
        /\ Len(fw.log) <= fw.max
        /\ pc \in {"fw_call", "fw_done"}
        /\ fw.done => (pc = "fw_done" /\ Len(fw.log) = fw.max /\ fw.result = None)

C1_Witness ==
    /\ pc = "fw_done" /\ fw.done
    /\ fw.max = DefaultMaxTries
    /\ Len(fw.log) = DefaultMaxTries
    /\ AllRateLimited(fw.log)

-----------------------------------------------------------------------------
(* Claims about handle_rate_limit, checked under SpecSeq *)

\* C2: when the listing's iteration raises TooManyRequests exactly twice and
\* then runs to its end, the consumer has received the listing's items, each
\* exactly once and in order, and the wrapper has slept exactly twice, the
\* second sleep at least as long as the first.
C2_TwoRateLimitsThenSuccess ==
    (pc = "hr_done" /\ hr.fails = 2) =>
        /\ delivered = gen.items
        /\ Len(hr.sleeps) = 2
        /\ hr.sleeps[2] >= hr.sleeps[1]

\* two rate limits, the first after an item had been delivered
C2_Witness ==
    /\ pc = "hr_done" /\ hr.fails = 2
    /\ hr.failpos[1] >= 1
    /\ Len(gen.items) = MaxListing

\* C3 (as stated): after a TooManyRequests raised when k >= 1 items had been
\* delivered, the next attempt starts again from the first item of the listing,
\* so the item delivered next is the first one.
C3_RestartsFromFirstItem ==
    (Len(hr.failpos) >= 1 /\ hr.failpos[1] >= 1 /\ Len(delivered) > hr.failpos[1])
        => delivered[hr.failpos[1] + 1] = gen.items[1]

\* C3 (amended): the next attempt iterates the same generator object, which
\* keeps its position: what has been delivered is always the listing's first
\* cursor items, no item delivered twice and none skipped, whatever the number
\* of rate limits in between.
C3_ResumesAtPosition ==
    /\ Len(delivered) = gen.cursor
    /\ delivered = SubSeq(gen.items, 1, gen.cursor)

\* an item is delivered after a rate limit that followed k >= 1 deliveries
C3_Witness ==
    /\ Len(hr.failpos) >= 1 /\ hr.failpos[1] >= 1
    /\ Len(delivered) > hr.failpos[1]

\* every attempt to iterate raised TooManyRequests and the wrapper is finished
EveryAttemptLimited == hr.done /\ hr.fails = hr.iterations

\* C4 (as stated): when every attempt raises TooManyRequests, the wrapper ends
\* without the TooManyRequests error leaving it.
C4_NoRawErrorPropagates ==
    EveryAttemptLimited => (pc # "hr_raised" \/ hr.exc.kind # "TooManyRequests")

\* C4 (amended): when every attempt raises TooManyRequests, the wrapper sleeps
\* max_retries times, makes max_retries + 1 attempts and then re-raises the
\* TooManyRequests error of the last attempt to its caller.
C4_ReraisesAfterRetries ==
    EveryAttemptLimited =>
        /\ pc = "hr_raised"
        /\ hr.exc.kind = "TooManyRequests"
        /\ hr.iterations = hr.max + 1
        /\ Len(hr.sleeps) = hr.max

C4_Witness ==
    /\ EveryAttemptLimited
    /\ pc = "hr_raised"
    /\ hr.max = DefaultMaxRetries
    /\ delivered = << >>

-----------------------------------------------------------------------------
(* The rows a pass without any failure appends, computed from the content *)

RECURSIVE CommentRowsFrom(_, _, _, _)
CommentRowsFrom(clist, i, s, cat) ==
    IF i > Len(clist) THEN << >>
    ELSE LET c == Comment(clist[i]) IN
         (IF c.hasBody /\ is_english(clean_text(c.body))
          THEN << CommentRow(c, s, cat) >> ELSE << >>)
         \o CommentRowsFrom(clist, i + 1, s, cat)

SubmissionRows(id, cat) ==
    LET s == Submission(id) IN
    IF is_english(CombinedText(s))
    THEN << PostRow(s, cat) >> \o CommentRowsFrom(s.expanded, 1, s, cat)
    ELSE << >>

RECURSIVE ListingRowsFrom(_, _, _)
ListingRowsFrom(items, i, cat) ==
    IF i > Len(items) THEN << >>
    ELSE SubmissionRows(items[i], cat) \o ListingRowsFrom(items, i + 1, cat)

RECURSIVE PassRowsFrom(_, _)
PassRowsFrom(sub, stage) ==
    IF stage > Len(Categories) THEN << >>
    ELSE ListingRowsFrom(Listing(sub, Categories[stage]), 1, Categories[stage])
         \o PassRowsFrom(sub, stage + 1)

\* a row as the record of its ten values
RowRecord(row) == [col \in {row[i][1] : i \in 1..Len(row)} |-> row[CHOOSE i \in 1..Len(row) : row[i][1] = col][2]]

PassRows(sub) ==
    IF env.loadValue
    THEN [k \in 1..Len(PassRowsFrom(sub, 1)) |-> RowRecord(PassRowsFrom(sub, 1)[k])]
    ELSE << >>

\* the rows of an aligned table
DataRows(d) == [k \in 1..Len(d["text"]) |-> [col \in DOMAIN d |-> d[col][k]]]

RECURSIVE RowsOfSub(_, _)
RowsOfSub(rows, sub) ==
    IF rows = << >> THEN << >>
    ELSE (IF Head(rows)["subreddit"] = Some(sub) THEN <<Head(rows)>> ELSE << >>)
         \o RowsOfSub(Tail(rows), sub)

IsPrefix(a, b) == Len(a) <= Len(b) /\ a = SubSeq(b, 1, Len(a))

-----------------------------------------------------------------------------
(* Claims about fetch_subreddit_content, checked under SpecContent *)

ForbiddenAtB ==
    /\ pc = "fc_returned"
    /\ mn.all_subs = <<"A", "B", "C">>
    /\ Len(tr.outcome) >= 2
    /\ tr.outcome[2] = "Forbidden"

\* C5 (as stated): with the list [A, B, C] and Forbidden raised in B's pass,
\* the returned table holds no row of B.
C5_ForbiddenContributesNothing ==
    ForbiddenAtB =>
        \A k \in 1..Len(data["subreddit"]) : data["subreddit"][k] # Some("B")

\* C5 (amended): with the list [A, B, C] and Forbidden raised in B's pass, C is
\* still traversed and the returned table holds A's rows, then B's, then C's;
\* when the Forbidden is the only failure of the run these are all rows of A's
\* pass, the rows B's pass had appended before the Forbidden, and all rows of
\* C's pass.
C5_ForbiddenKeepsOthers ==
    ForbiddenAtB =>
        /\ Len(tr.passes) = 3 /\ tr.passes[3] >= 1
        /\ Len(tr.outcome) = 3
        /\ \A j, k \in 1..Len(data["subreddit"]) :
              (j < k /\ data["subreddit"][j] = Some("C")) => data["subreddit"][k] = Some("C")
        /\ \A j, k \in 1..Len(data["subreddit"]) :
              (j < k /\ data["subreddit"][k] = Some("A")) => data["subreddit"][j] = Some("A")
        /\ (env.left = MaxFaults - 1) =>
              /\ tr.outcome[3] = "finished"
              /\ Aligned(data)
              /\ RowsOfSub(DataRows(data), "A") = PassRows("A")
              /\ RowsOfSub(DataRows(data), "C") = PassRows("C")
              /\ IsPrefix(RowsOfSub(DataRows(data), "B"), PassRows("B"))

\* B had appended rows before the Forbidden, and C appended its own after it
C5_Witness ==
    /\ ForbiddenAtB
    /\ \E k \in 1..Len(data["subreddit"]) : data["subreddit"][k] = Some("B")
    /\ \E k \in 1..Len(data["subreddit"]) : data["subreddit"][k] = Some("C")

PassStarted(i) == Len(tr.passes) >= i /\ tr.passes[i] >= 1

\* C6: fetch_subreddit_content always comes to its return, unless a
\* KeyboardInterrupt ends the run first, and when it returns a pass has been
\* started for every subreddit of the list, however the loops of the
\* subreddits before it ended (finished, three rate-limited passes, Forbidden,
\* NotFound, another exception).  Checked under FairContent.
C6_EveryCommunityStarts ==
    /\ [](pc = "fc_returned" => \A i \in 1..Len(mn.all_subs) : PassStarted(i))
    /\ <>(pc \in {"fc_returned", "interrupted"})

\* the second subreddit starts after the first used up its three tries
C6_Witness ==
    /\ Len(tr.outcome) >= 1 /\ tr.outcome[1] = "exhausted"
    /\ PassStarted(2)

-----------------------------------------------------------------------------
(* Claims about main, checked under Spec *)

\* C7: whenever main has ended without a KeyboardInterrupt, whatever the API
\* failures and whatever the searches found, the table has been written.
C7_AlwaysMaterializes ==
    pc \in {"done", "crashed", "exit_empty"} => ~IsNone(csv)

\* C8: after a KeyboardInterrupt that arrives while fetch_subreddit_content is
\* traversing, the rows appended before it have been written out.
C8_InterruptFlushes ==
    (pc = "interrupted" /\ mn.at = "fetch" /\ src # << >>) => csv = Some(data)

\* C9: every row begun in the sink was begun for an item that passed the
\* filter: a post whose cleaned title-and-body is English and at least 10
\* characters long, or a comment whose cleaned body, which is the row's text,
\* is English and at least 10 characters long.
C9_RowsPassedFilter ==
    /\ Len(data["text"]) = Len(src)
    /\ Len(data["title"]) = Len(src)
    /\ \A k \in 1..Len(src) :
         IF src[k].kind = "post"
         THEN /\ data["title"][k] = PostRowOf[src[k].id][src[k].cat][1][2]
              /\ data["text"][k] = PostRowOf[src[k].id][src[k].cat][2][2]
              /\ PostAccepted[src[k].id]
              /\ Len(PostCombined[src[k].id]) >= MinDetectLen
         ELSE /\ data["title"][k] = None
              /\ data["text"][k] = Some(CleanBody[src[k].id])
              /\ CommentAccepted[src[k].id]
              /\ Len(CleanBody[src[k].id]) >= MinDetectLen

\* a post accepted on its title alone (its text is empty) and a comment
C9_Witness ==
    /\ \E k \in 1..Len(src) : src[k].kind = "post" /\ data["text"][k] = Some(T_Empty)
    /\ \E k \in 1..Len(src) : src[k].kind = "comment"

\* the items whose parent_text has been appended (it is the eighth column)
HasParentText(e) == e.n >= 8

\* C10: every parent_text in the sink is None for a post, None for a comment
\* whose parent is the submission or is not available locally, and when it is
\* set it is the cleaned body of the comment's parent comment, which is English.
C10_ParentText ==
    LET own == SelectSeq(src, HasParentText) IN
    /\ Len(data["parent_text"]) = Len(own)
    /\ \A j \in 1..Len(own) :
         LET pt == data["parent_text"][j] IN
         IF own[j].kind = "post" THEN pt = None
         ELSE LET c == Comment(own[j].id) IN
              /\ c.parent <= 0 => pt = None
              /\ pt # None =>
                    /\ c.parent > 0
                    /\ Comment(c.parent).hasBody
                    /\ pt = Some(CleanBody[c.parent])
                    /\ CommentAccepted[c.parent]

\* a comment with its parent's text, and an English comment under a comment
\* that is not English, whose parent_text is None
C10_Witness ==
    LET own == SelectSeq(src, HasParentText) IN
    /\ \E j \in 1..Len(own) : data["parent_text"][j] # None
    /\ \E j \in 1..Len(own) :
         /\ own[j].kind = "comment"
         /\ Comment(own[j].id).parent > 0
         /\ data["parent_text"][j] = None

-----------------------------------------------------------------------------
(* The worked examples, checked under SpecContent *)

\* the list is the one subreddit C, whose only listed submission is "Great
\* phone" (empty body, score 10) with the one comment "I agree" under the
\* submission; the traversal has returned and no call has failed
ExampleOne ==
    /\ pc = "fc_returned"
    /\ mn.all_subs = <<"C">>
    /\ env.left = MaxFaults

IsGreatPhonePost(r) ==
    /\ r["type"] = Some("post")
    /\ r["title"] = Some(T_GreatPhone)
    /\ r["text"] = Some(T_Empty)
    /\ r["upvotes"] = Some(10)
    /\ r["parent_text"] = None
    /\ r["category"] = Some("new")

\* C11 (as stated): the example gives exactly two rows, the post "Great
\* phone" and then the comment "I agree" with the comment's score, the same
\* category and no parent_text.
C11_ExampleTwoRecords ==
    (ExampleOne /\ env.loadValue) =>
        /\ Aligned(data)
        /\ Len(DataRows(data)) = 2
        /\ IsGreatPhonePost(DataRows(data)[1])
        /\ DataRows(data)[2]["type"] = Some("comment")
        /\ DataRows(data)[2]["text"] = Some(T_IAgree)
        /\ DataRows(data)[2]["upvotes"] = Some(Comment(7).score)
        /\ DataRows(data)[2]["category"] = Some("new")
        /\ DataRows(data)[2]["parent_text"] = None

\* C11 (amended): the example gives the post row "Great phone" alone when the
\* load call returned a value, and no row when it returned none; the comment
\* "I agree", whose cleaned body has 7 characters, never gives a row.
C11_ExamplePostOnly ==
    ExampleOne =>
        /\ Aligned(data)
        /\ env.loadValue =>
              (Len(DataRows(data)) = 1 /\ IsGreatPhonePost(DataRows(data)[1]))
        /\ ~env.loadValue => DataRows(data) = << >>
        /\ \A k \in 1..Len(src) : src[k].kind = "post"

C11_Witness ==
    /\ ExampleOne
    /\ env.loadValue
    /\ Len(data["text"]) = 1
    /\ tr.outcome = <<"finished">>

\* the parent_text appended for each visit of comment 9, an accepted comment
\* whose parent is comment 8, "Same here"
SameHereChildren ==
    LET own == SelectSeq(src, HasParentText) IN
    { data["parent_text"][j] : j \in {i \in 1..Len(own) : own[i].kind = "comment" /\ own[i].id = 9} }

\* C12 (as stated): an accepted comment whose parent is the comment "Same
\* here" is emitted with parent_text = "Same here".
C12_ParentSameHere == \A pt \in SameHereChildren : pt = Some(T_SameHere)

\* C12 (amended): an accepted comment whose parent is the comment "Same here"
\* is emitted with parent_text unset: the parent's cleaned body has 9
\* characters and is_english rejects every text shorter than 10.
C12_ParentSameHereUnset ==
    /\ Comment(9).parent = 8 /\ CleanBody[8] = T_SameHere
    /\ \A pt \in SameHereChildren : pt = None

C12_Witness == SameHereChildren # {}

-----------------------------------------------------------------------------
(* Items whose fields cannot be read, and the growth of the sink *)

\* a step in which the read of a field of the current item raises
FieldReadRaises == env'.left < env.left

\* C13: a step in which the read of a field of a comment raises appends
\* nothing and the walk goes on with the submission's next comment; a step in
\* which the read of a field of a submission raises appends nothing and the
\* listing goes on with its next submission.
C13_MalformedSkipped ==
    [][ /\ (pc = "pc_walk" /\ FieldReadRaises) => (data' = data /\ pc' = "pc_walk")
        /\ (pc = "ps_loaded" /\ FieldReadRaises) => (data' = data /\ pc' = "hr_iter") ]_vars

\* C14: every step leaves every column of the sink as it was or longer with
\* its old entries in place: no row is removed, moved or changed, across
\* restarted passes, abandoned subreddits and skipped items too.
C14_AppendOnly ==
    [][ \A col \in DOMAIN data : IsPrefix(data[col], data'[col]) ]_vars

\* a second pass of a subreddit is running and a row of its first pass is
\* still in the sink
C14_Witness ==
    /\ pc = "hr_iter"
    /\ tr.idx >= 1 /\ tr.passes[tr.idx] >= 2
    /\ \E k \in 1..Len(src) : src[k].sub = tr.idx /\ src[k].n = Len(Columns)
    /\ Len(data["category"]) >= 1

-----------------------------------------------------------------------------
(* clean_text, checked under SpecText *)

\* C15: clean_text applied to its own result gives that result again, for
\* every text.
C15_CleanIdempotent == (pc = "ct_done") => txt.twice = txt.once

\* a text with a URL between two words: cleaning removed the URL and kept both
C15_Witness ==
    /\ pc = "ct_done"
    /\ txt.input = <<"t", " ", "w", "w", "w", "h">>
    /\ txt.once = <<"t">>

-----------------------------------------------------------------------------
(* The attempts and the delays of the wrappers *)

\* C16 (as stated): with max_retries = N >= 1, handle_rate_limit starts
\* iterating the generator at most N times, the first attempt included.
C16_AtMostNIterations == (hr.max >= 1) => hr.iterations <= hr.max

\* C16 (amended): handle_rate_limit starts iterating the generator once more
\* than it has retried, it retries at most max_retries times, and it re-raises
\* TooManyRequests only from iteration max_retries + 1: N + 1 attempts.
C16_AtMostNPlusOneIterations ==
    /\ hr.iterations = hr.retries + 1
    /\ hr.retries <= hr.max
    /\ (pc = "hr_raised" /\ hr.exc.kind = "TooManyRequests") => hr.iterations = hr.max + 1

\* the fourth iteration under the default max_retries = 3
C16_Witness ==
    /\ pc = "hr_iter"
    /\ hr.max = DefaultMaxRetries
    /\ hr.iterations = DefaultMaxRetries + 1

OtherKinds == {e.kind : e \in OtherExcs}

\* C17 (as stated): handle_rate_limit ends with a failure other than
\* TooManyRequests only when no retry remains; while retries remain it sleeps
\* and iterates again.
C17_RetriesOtherFailures ==
    (pc = "hr_raised" /\ hr.exc.kind \in OtherKinds) => hr.retries >= hr.max

\* C17 (amended): the step in which iterating raises a failure other than
\* TooManyRequests ends handle_rate_limit with that failure raised to the
\* caller: no sleep, no further iteration, whatever retries remain.
C17_ReraisesOtherFailures ==
    [][ (pc = "hr_iter" /\ hr'.exc.kind \in OtherKinds) =>
            /\ pc' = "hr_raised"
            /\ hr'.done
            /\ hr'.sleeps = hr.sleeps
            /\ hr'.iterations = hr.iterations
            /\ hr'.retries = hr.retries ]_vars

\* another failure raised after an item was delivered, with retries left
C17_Witness ==
    /\ pc = "hr_raised"
    /\ hr.exc.kind = "Forbidden"
    /\ hr.retries < hr.max
    /\ delivered # << >>

\* C18: the k-th sleep of handle_rate_limit lasts 5 * k; fetch_with_retry
\* sleeps after each failed attempt but attempt max_tries, the Retry-After of
\* the error if it has one, 30 after a TooManyRequests without one, 5 after any
\* other exception, whatever the attempt's number.  Checked under SpecWrappers.
C18_DelaySchedule ==
    /\ \A k \in 1..Len(hr.sleeps) : hr.sleeps[k] = 5 * k
    /\ Len(hr.sleeps) = hr.retries
    /\ Len(fw.sleeps) = Cardinality({k \in 1..Len(fw.raised) : k < fw.max})
    /\ \A k \in 1..Len(fw.sleeps) :
         fw.sleeps[k] = IF fw.raised[k].kind # "TooManyRequests" THEN 5
                        ELSE IF IsNone(fw.raised[k].hint) THEN 30
                        ELSE Get(fw.raised[k].hint)

\* fetch_with_retry has given up after a rate limit with Retry-After, one
\* without and another exception, and slept 7 and 30 but not 5
C18_Witness ==
    /\ pc = "fw_done" /\ fw.max = DefaultMaxTries
    /\ fw.sleeps = <<7, FallbackWait>>
    /\ fw.log = <<"TooManyRequests", "TooManyRequests", "Exception">>

-----------------------------------------------------------------------------
(* The retry loop of fetch_subreddit_content, checked under SpecContent *)

\* a step of fetch_with_retry in which the wrapped call raises TooManyRequests
LoadOrExpandRateLimited ==
    /\ pc = "fw_call"
    /\ Len(fw'.raised) = Len(fw.raised) + 1
    /\ fw'.last.kind = "TooManyRequests"

\* a step of handle_rate_limit in which iterating the listing raises
\* TooManyRequests
ListingRateLimited == pc = "hr_iter" /\ hr'.fails = hr.fails + 1

\* C19 (as stated): a TooManyRequests raised anywhere in a pass (listing
\* iteration, submission load, comment-tree expansion) goes to the handler of
\* the outer loop, which sleeps, counts a try and restarts the pass.
C19_AnyRateLimitRestarts ==
    [][ (LoadOrExpandRateLimited \/ ListingRateLimited) => pc' = "tr_except" ]_vars

\* C19 (amended): a subreddit gets at most 3 passes; when a pass is about to
\* start, every earlier pass of the subreddit ended in the outer handler for
\* TooManyRequests, which slept the Retry-After or 30 each time; no pass
\* starts for a subreddit whose loop has been left; the outer handler is
\* reached only from the subreddit lookup or when handle_rate_limit has used up
\* its retries, while a TooManyRequests during load or expansion, or with
\* retries left in handle_rate_limit, is retried inside the wrapper and leaves
\* the outer loop's count alone.
C19_OuterRetryLoop ==
    /\ [](\A i \in 1..Len(tr.passes) : tr.passes[i] <= 3)
    /\ []((pc = "tr_pass") =>
            /\ tr.passes[tr.idx] = tr.tries
            /\ Len(tr.sleeps) = tr.tries
            /\ \A k \in 1..Len(tr.sleeps) : tr.sleeps[k] \in {30} \cup RetryAfterValues)
    /\ [][ /\ \A i \in 1..Len(tr.outcome) : tr'.passes[i] = tr.passes[i]
           /\ LoadOrExpandRateLimited => (pc' = "fw_call" /\ tr' = tr)
           /\ (ListingRateLimited /\ hr.retries < hr.max) => (pc' = "hr_iter" /\ tr' = tr)
           /\ (ListingRateLimited /\ hr.retries = hr.max) => pc' = "tr_except"
           /\ (tr'.tries = tr.tries + 1) =>
                 (pc = "tr_except" /\ tr.exc.kind = "TooManyRequests" /\ pc' = "tr_pass") ]_vars

\* the second pass of a subreddit runs after the outer handler slept 30, with
\* a row of the first pass in the sink
C19_Witness ==
    /\ pc = "hr_iter"
    /\ tr.tries = 1 /\ tr.sleeps = <<30>>
    /\ tr.passes[tr.idx] = 2
    /\ src # << >>

\* C20: the step that handles Forbidden, NotFound or another exception in the
\* outer loop leaves the subreddit's loop at once: it records the outcome,
\* sleeps nothing, counts no try, starts no pass and goes on to the next
\* subreddit of the list; and no pass starts later for that subreddit.
C20_ImmediateAbandonment ==
    [][ /\ (pc = "tr_except" /\ tr.exc.kind \in OtherKinds /\ pc' # "interrupted") =>
              /\ pc' = "tr_next_sub"
              /\ tr'.idx = tr.idx
              /\ tr'.sleeps = tr.sleeps
              /\ tr'.tries = tr.tries
              /\ tr'.passes = tr.passes
              /\ tr'.outcome = Append(tr.outcome, tr.exc.kind)
        /\ \A i \in 1..Len(tr.outcome) :
              tr.outcome[i] \in OtherKinds => tr'.passes[i] = tr.passes[i] ]_vars

\* the first subreddit was abandoned on NotFound in its first pass and the
\* second subreddit's pass has started
C20_Witness ==
    /\ Len(tr.outcome) >= 1 /\ tr.outcome[1] = "NotFound"
    /\ tr.passes[1] = 1
    /\ tr.idx = 2 /\ tr.passes[2] = 1

-----------------------------------------------------------------------------
(* Claims about process_submission and process_comments, checked under Spec *)

\* the position in src of the post of the visit that produced entry k: the
\* last post at or before k, 0 if there is none
VisitPost(k) ==
    CHOOSE j \in 0..k :
        /\ j > 0 => src[j].kind = "post"
        /\ \A i \in (j + 1)..k : src[i].kind = "comment"

TreeOf(id) ==
    {Submission(id).expanded[i] : i \in 1..Len(Submission(id).expanded)}
        \cup {Submission(id).fetched[i] : i \in 1..Len(Submission(id).fetched)}

\* the loaded submission process_submission is about to filter is rejected
RejectedLoaded == pc = "ps_loaded" /\ ~IsNone(fw.result) /\ ~PostAccepted[ps.sub]

\* C21: when the cleaned title and body of a loaded submission fail
\* is_english, process_submission appends nothing and returns without
\* expanding or walking the comments; and every comment row of the sink
\* follows, within the same visit, the complete post row of an accepted
\* submission whose tree holds the comment.
C21_RejectedSubmission ==
    /\ [][RejectedLoaded =>
            /\ data' = data /\ src' = src
            /\ pc' \in {"hr_iter", "interrupted"}]_vars
    /\ [](\A k \in 1..Len(src) :
            src[k].kind = "comment" =>
                LET j == VisitPost(k) IN
                /\ j > 0
                /\ src[j].n = Len(Columns)
                /\ PostAccepted[src[j].id]
                /\ src[j].sub = src[k].sub /\ src[j].cat = src[k].cat
                /\ src[k].id \in TreeOf(src[j].id))

\* submission 2, whose title is not English, was loaded without any failure
\* and rejected, after comments of an accepted submission had been appended,
\* and its comment 4, which would pass the filter, was not appended
C21_Witness ==
    /\ pc = "hr_iter" /\ hr.ctx = "traverse"
    /\ delivered = <<2>> /\ ps = IdlePS
    /\ env.left = MaxFaults /\ env.loadValue
    /\ CommentAccepted[4]
    /\ \E k \in 1..Len(src) : src[k].kind = "comment"
    /\ \A k \in 1..Len(src) : src[k].id # 4 \/ src[k].kind = "post"

\* fetch_with_retry has returned to process_submission after every one of its
\* max_tries attempts to load the submission raised
LoadFailedTerminally ==
    /\ pc = "ps_loaded" /\ fw.what = "load"
    /\ fw.tries = fw.max /\ Len(fw.raised) = fw.max

\* C22: when loading a submission failed on all max_tries attempts,
\* process_submission appends nothing and returns normally: the listing
\* iteration goes on at its position, inside the same handle_rate_limit call,
\* and the outer loop's tries, passes and position are unchanged.
C22_LoadFailureContained ==
    [][LoadFailedTerminally =>
          \/ pc' = "interrupted"
          \/ /\ pc' = "hr_iter"
             /\ data' = data /\ src' = src
             /\ hr' = hr /\ gen' = gen /\ delivered' = delivered
             /\ tr' = tr]_vars

\* submission 1 was skipped after three rate-limited load attempts: the
\* listing loop is running, nothing was appended and no outer try was used
C22_Witness ==
    /\ pc = "hr_iter" /\ hr.ctx = "traverse" /\ hr.fails = 0
    /\ delivered = <<1>> /\ ps = IdlePS
    /\ env.limited /\ env.left = MaxFaults - 1
    /\ src = << >>
    /\ tr.tries = 0 /\ tr.passes[tr.idx] = 1

\* C23: every comment Record (the values at one index of the ten columns)
\* carries the category of the listing that yielded its submission, which is
\* also the category the post Record of its visit carries.
C23_CategoryTagging ==
    \A k \in 1..Len(data["category"]) :
        src[k].kind = "comment" =>
            /\ data["category"][k] = Some(src[k].cat)
            /\ VisitPost(k) > 0
            /\ data["category"][VisitPost(k)] = data["category"][k]

\* the order of the listings the claim states
FixedOrder == <<"queried", "hot", "controversial", "top", "new", "rising">>

PosIn(seq, x) == CHOOSE i \in 1..Len(seq) : seq[i] = x

\* C24: subreddits are taken one at a time in list order, so the rows of an
\* earlier subreddit precede the rows of a later one; within a pass the
\* listings are taken in the order queried, hot, controversial, top, new,
\* rising, and every row is begun for the listing and subreddit being
\* traversed; a post row is followed directly by the rows of comments of its
\* own tree, in the order of the tree, before any other submission's row.
C24_OrderedTraversal ==
    /\ [][/\ tr'.idx >= tr.idx
          /\ (tr'.idx = tr.idx /\ tr'.passes = tr.passes) => tr'.stage >= tr.stage
          /\ tr'.stage # tr.stage => tr'.stage \in {0, 1, tr.stage + 1}
          /\ src' # src =>
                /\ Len(src') = Len(src) + 1 /\ IsPrefix(src, src')
                /\ src'[Len(src')].sub = tr.idx
                /\ src'[Len(src')].cat = FixedOrder[tr.stage]]_vars
    /\ [](/\ \A i, j \in 1..Len(src) : i < j => src[i].sub <= src[j].sub
          /\ \A i, j \in 1..Len(data["subreddit"]) :
                i < j => \E a, b \in 1..Len(mn.all_subs) :
                            /\ a <= b
                            /\ data["subreddit"][i] = Some(mn.all_subs[a])
                            /\ data["subreddit"][j] = Some(mn.all_subs[b])
          /\ \A k \in 1..Len(src) :
                src[k].kind = "comment" =>
                    /\ k > 1
                    /\ src[k].id \in TreeOf(src[VisitPost(k)].id)
                    /\ src[k - 1].kind = "comment" =>
                          PosIn(Submission(src[VisitPost(k)].id).expanded, src[k - 1].id)
                            < PosIn(Submission(src[VisitPost(k)].id).expanded, src[k].id))

\* rows of two subreddits, rows of two listings of one pass, and a post row
\* followed by the rows of two of its comments
C24_Witness ==
    /\ \E i, j \in 1..Len(src) : i < j /\ src[i].sub = 1 /\ src[j].sub = 2
    /\ \E i, j \in 1..Len(src) :
          /\ i < j /\ src[i].sub = src[j].sub
          /\ src[i].cat = "queried" /\ src[j].cat = "top"
    /\ \E k \in 1..Len(src) :
          /\ k + 2 <= Len(src)
          /\ src[k].kind = "post" /\ src[k + 1].kind = "comment" /\ src[k + 2].kind = "comment"
    /\ Aligned(data)

\* control is inside process_submission or what it calls
InProcessSubmission ==
    \/ pc \in {"ps_loaded", "pc_list", "pc_walk"}
    \/ pc = "fw_call" /\ fw.what \in {"load", "expand"}

\* C25: whenever process_submission has returned, normally or after catching
\* an exception, the ten columns have the same length.
C25_ColumnsAligned ==
    (~InProcessSubmission /\ pc # "interrupted") => Aligned(data)

-----------------------------------------------------------------------------
(* Claims about the passes of fetch_subreddit_content, checked under Spec *)

\* the rows begun for the same submission, listing and subreddit as row k
SameVisits(k) ==
    {j \in 1..Len(src) :
        /\ src[j].kind = "post" /\ src[j].id = src[k].id
        /\ src[j].cat = src[k].cat /\ src[j].sub = src[k].sub}

\* C26: what a pass appended stays in the sink when the pass ends in a
\* TooManyRequests, Forbidden, NotFound or another exception and when the next
\* pass starts; a restarted pass appends the rows of the same submissions
\* again, so a submission yielded once per pass by a listing has at most as
\* many post rows for that listing as passes were started for its subreddit.
C26_RetainedPartialPass ==
    /\ [][(pc = "tr_except" \/ pc = "tr_pass") =>
            /\ data' = data
            /\ src' = src]_vars
    /\ [](\A k \in 1..Len(src) :
            src[k].kind = "post" =>
                Cardinality(SameVisits(k)) <= tr.passes[src[k].sub])

\* after a pass that ended in a rate limit, the restarted pass has appended
\* the post of the same submission a second time: two identical post Records
C26_Witness ==
    /\ Aligned(data)
    /\ \E i, j \in 1..Len(src) :
          /\ i < j /\ src[i].kind = "post" /\ j \in SameVisits(i)
          /\ DataRows(data)[i] = DataRows(data)[j]
          /\ tr.passes[src[i].sub] = 2

-----------------------------------------------------------------------------
(* process_submission exercised alone *)

\* process_submission called on any submission of the content under any
\* category, with room for a failure of the expansion and one more
InitSubmission ==
    /\ pc = "fw_call"
    /\ \E id \in SubmissionIds, cat \in CategorySet : ps = NewPS(id, cat)
    /\ fw = NewFW("load", DefaultMaxTries, "ps_loaded")
    /\ \E b \in BOOLEAN : env = NewEnv(MaxFaults + 1, b)
    /\ hr = IdleHR /\ gen = IdleGen /\ delivered = << >>
    /\ tr = NewTR /\ mn = NewMain
    /\ data = create_data_container /\ src = << >> /\ csv = None /\ txt = IdleTxt

NextSubmission ==
    \/ FWCallOk \/ FWCallRateLimited \/ FWCallError \/ FWGiveUp
    \/ PSSkipUnloaded \/ PSReject \/ PSEmitPost \/ PSShapeError
    \/ PCList \/ PCSkipNoBody \/ PCSkipNotEnglish \/ PCEmitComment \/ PCShapeError \/ PCDone

SpecSubmission == InitSubmission /\ [][NextSubmission]_vars

\* replace_more failed on every attempt and process_comments is about to
\* list the comments
ExpansionFailed ==
    /\ pc = "pc_list" /\ fw.what = "expand"
    /\ IsNone(fw.result) /\ fw.tries = fw.max

\* the walk is over the comments load() had fetched, of a submission whose
\* expanded tree is another list
WalkingUnexpanded ==
    /\ pc = "pc_walk" /\ ps.ci <= Len(ps.clist)
    /\ ps.clist = Submission(ps.sub).fetched
    /\ Submission(ps.sub).fetched # Submission(ps.sub).expanded

\* C27: when the expansion failed on all attempts, process_comments walks the
\* comments that are locally available: an entry without a body is skipped
\* without a trace, an entry whose cleaned body fails the filter is skipped,
\* and every entry that has a body and passes the filter gets its Record.
\* Checked under SpecSubmission.
C27_ExpansionFailureIgnored ==
    /\ [][ExpansionFailed =>
            /\ pc' = "pc_walk"
            /\ ps'.clist = Submission(ps.sub).fetched /\ ps'.ci = 1
            /\ data' = data]_vars
    /\ [][WalkingUnexpanded =>
            /\ pc' = "pc_walk" /\ ps'.ci = ps.ci + 1
            /\ data' = IF CurrentComment.hasBody /\ CommentAccepted[ps.clist[ps.ci]]
                       THEN AppendRow(data, CommentRowOf[ps.clist[ps.ci]][ps.sub][ps.cat],
                                      Len(Columns))
                       ELSE data]_vars

-----------------------------------------------------------------------------
(* Claims about the result of the load, checked under Spec *)

\* fetch_with_retry has returned to process_submission from an attempt to
\* load the submission that raised nothing
LoadSucceeded ==
    /\ pc = "ps_loaded" /\ fw.what = "load"
    /\ fw.log # << >> /\ fw.log[Len(fw.log)] = "ok"

\* C28: process_submission skips a submission as a load failure only when
\* every one of the max_tries attempts raised; after a load that succeeded on
\* some attempt it goes on to the language filter, also when the successful
\* call returned no value.
C28_LoadResultVersusFailure ==
    [][/\ PSSkipUnloaded => (fw.tries = fw.max /\ Len(fw.raised) = fw.max)
       /\ LoadSucceeded => ~PSSkipUnloaded]_vars

-----------------------------------------------------------------------------
(* Termination of fetch_subreddit_content, checked under FairContent *)

\* C29: for a finite list, finite listings and finite comment trees, and
\* under every pattern of API failures, fetch_subreddit_content comes to its
\* return (unless a KeyboardInterrupt ends the run first): at most 3 passes
\* are started per subreddit, handle_rate_limit iterates a listing at most
\* max_retries + 1 times and then gives up, and fetch_with_retry makes at most
\* max_tries attempts per load and per expansion.
C29_Termination ==
    /\ [](/\ \A i \in 1..Len(tr.passes) : tr.passes[i] <= 3
          /\ tr.tries <= 3
          /\ hr.iterations <= hr.max + 1 /\ hr.fails <= hr.max + 1
          /\ fw.tries <= fw.max /\ Len(fw.log) <= fw.max)
    /\ <>(pc = "fc_returned" \/ mn.exc.kind = "KeyboardInterrupt")

\* the function has returned after a subreddit used up its three passes
C29_Witness ==
    /\ pc = "fc_returned"
    /\ \E i \in 1..Len(tr.passes) : tr.passes[i] = 3 /\ tr.outcome[i] = "exhausted"

=============================================================================
